---- MODULE Spec2Model ----
(***************************************************************************)
(* The trade aggregation pipeline as state machines: the position          *)
(* aggregation engine of src/aggregator.py (aggregate_trades_to_positions  *)
(* and its helpers) and, each under specifications of its own further      *)
(* down, write_fills_csv of src/output_writer.py, request_with_retry and   *)
(* fetch_new_trades of src/binance_client.py with update_watermark of      *)
(* src/state_manager.py, and the run of main() of src/main.py from         *)
(* load_state to write_fills_csv.                                          *)
(*                                                                         *)
(* Numbers.  The code computes on floats; the model computes on integers.  *)
(* Quantities are counted in units of half the flatness threshold, so that *)
(* config.MIN_QTY_THRESHOLD (1e-12) is 2 and a quantity of 1 is a non-zero *)
(* residue below the threshold.  Prices, commissions and realized P&L are  *)
(* integers in their own units, times are integers counted in minutes.     *)
(* entry_vwap, a quotient, is kept as the pair of its numerator and        *)
(* denominator.  A value pandas may leave missing (NaT, None, NaN) is a    *)
(* sequence of length at most one: <<>> when missing, <<v>> when present.  *)
(* A DataFrame is the sequence of its rows; a row is a record whose        *)
(* DOMAIN is the frame's columns.                                          *)
(*                                                                         *)
(* Inputs.  Every input frame has the columns the loop reads, with numeric *)
(* values, so that the coercions of lines 56-58 change nothing.  Spec      *)
(* feeds one net-mode key, SpecHedge the two hedge-mode keys of a symbol,  *)
(* both in the order of the fills file; SpecOrder feeds two symbols in     *)
(* every order of arrival, SpecSides every positionSide, SpecMalformed     *)
(* negative prices and quantities, SpecOvershoot the fills that cross zero *)
(* by more than the position they close.                                   *)
(***************************************************************************)
EXTENDS Integers, Sequences, FiniteSets, TLC

VARIABLES
    df,              \* the argument of aggregate_trades_to_positions
    rows,            \* df after normalisation and sort_values (line 61)
    i,               \* 1-based index of the next row of the for loop (line 109)
    state,           \* the dict `state` (line 64), in insertion order
    positions,       \* the list `positions` (line 63)
    open_positions,  \* the list `open_positions` (line 167)
    result,          \* the returned DataFrame (line 199)
    pc,              \* "start", "loop", "combine", "done", "error"
    hist,            \* history: per key, the fills of its live state so far
    flushedHist,     \* history: for each element of positions, its fills
    openHist,        \* history: for each element of open_positions, its fills
    fills_csv,       \* the file config.FILLS_CSV: <<>> or <<its rows>>
    fills_ret,       \* what the last write_fills_csv returned or raised
    max_retries,     \* request_with_retry: its argument max_retries
    attempt,         \* request_with_retry: the loop variable of line 55
    replies,         \* request_with_retry: what each request made so far gave
    retry_pc,        \* "idle", "loop", "sleep", "returned", "raised"
    retry_ret,       \* what request_with_retry returned or raised
    now,             \* the exchange: how many trades of Timeline have happened
    state_file,      \* the dict in the file config.STATE_FILE
    wm_state,        \* fetch_new_trades: the dict `state`
    fetch_pc,        \* "idle", "symbols", "returned", "saved"
    sym_idx,         \* fetch_new_trades: 1-based index of the loop of line 178
    start_date,      \* fetch_new_trades: its argument start_date
    start_time_ms,   \* fetch_new_trades: start_time_ms (lines 162-174)
    all_trades,      \* fetch_new_trades: the list all_trades
    sent,            \* history: the parameters of the requests of this run
    fetched,         \* history: the trades returned by the runs so far
    succeeded        \* history: the symbols fetched without error in this run

aggVars == <<df, rows, i, state, positions, open_positions, result, pc,
             hist, flushedHist, openHist>>

storeVars == <<fills_csv, fills_ret>>

retryVars == <<max_retries, attempt, replies, retry_pc, retry_ret>>

fetchVars == <<now, state_file, wm_state, fetch_pc, sym_idx, start_date,
               start_time_ms, all_trades, sent, fetched, succeeded>>

\* the variables of the modules around the aggregator
ioVars == <<storeVars, retryVars, fetchVars>>

vars == <<aggVars, ioVars>>

---------------------------------------------------------------------------
(* The bound of the model. *)

\* the longest input frame
MaxFills == 3

\* the longest batch of trades handed to write_fills_csv
MaxBatch == 2

---------------------------------------------------------------------------
(* config.py *)

MIN_QTY_THRESHOLD == 2

MAX_RETRIES == 5

MAX_LIMIT == 2

---------------------------------------------------------------------------
(* Helpers standing for Python and pandas built-ins. *)

Abs(x) == IF x < 0 THEN -x ELSE x

Max(a, b) == IF a >= b THEN a ELSE b

NaT == <<>>

None == <<>>

NaN == <<>>

Some(v) == <<v>>

notna(v) == v # <<>>

\* the order of Python's str comparison on the symbols the model uses
SymbolRank(s) ==
    CASE s = "BTCUSDT" -> 1
      [] s = "ETHUSDT" -> 2
      [] OTHER -> 3

\* the order of Python's str comparison on positionSide values
PositionSideRank(ps) ==
    CASE ps = "BOTH" -> 1
      [] ps = "LONG" -> 2
      [] ps = "SHORT" -> 3
      [] OTHER -> 4

---------------------------------------------------------------------------
(* _signed_qty, lines 15-37 *)

\* _signed_qty reading the side alone
SignedQtyBySide(row) ==
    IF row.side = "BUY" THEN row.qty ELSE -row.qty

signed_qty(row) ==
    LET qty == row.qty
        side == row.side
        ps == row.positionSide
    IN  IF ps = "LONG" THEN (IF side = "BUY" THEN qty ELSE -qty)
        ELSE IF ps = "SHORT" THEN (IF side = "SELL" THEN qty ELSE -qty)
        ELSE (IF side = "BUY" THEN qty ELSE -qty)

---------------------------------------------------------------------------
(* df.sort_values(["symbol", "positionSide", "time", "id"]), line 61 *)

\* RowLess without the column id
RowLessNoId(a, b) ==
    \/ SymbolRank(a.symbol) < SymbolRank(b.symbol)
    \/ /\ a.symbol = b.symbol
       /\ \/ PositionSideRank(a.positionSide) < PositionSideRank(b.positionSide)
          \/ a.positionSide = b.positionSide /\ a.time < b.time

\* a sorts strictly before b on the four sort columns
RowLess(a, b) ==
    \/ SymbolRank(a.symbol) < SymbolRank(b.symbol)
    \/ /\ a.symbol = b.symbol
       /\ \/ PositionSideRank(a.positionSide) < PositionSideRank(b.positionSide)
          \/ /\ a.positionSide = b.positionSide
             /\ \/ a.time < b.time
                \/ a.time = b.time /\ a.id < b.id

\* s, sorted, with x inserted after every element that does not sort after x
RECURSIVE InsertRow(_, _)
InsertRow(s, x) ==
    IF s = <<>> THEN <<x>>
    ELSE IF RowLess(x, Head(s)) THEN <<x>> \o s
    ELSE <<Head(s)>> \o InsertRow(Tail(s), x)

\* a stable sort: rows equal on the four columns keep their arrival order
RECURSIVE SortRows(_)
SortRows(s) ==
    IF s = <<>> THEN <<>>
    ELSE InsertRow(SortRows(SubSeq(s, 1, Len(s) - 1)), s[Len(s)])

---------------------------------------------------------------------------
(* The dict `state`: a sequence of entries in insertion order. *)

HasKey(d, key) == \E j \in DOMAIN d : d[j].key = key

Get(d, key) == d[CHOOSE j \in DOMAIN d : d[j].key = key].st

\* d[key] = st: an existing key keeps its place, a new key goes last
Put(d, key, st) ==
    IF HasKey(d, key)
    THEN [j \in DOMAIN d |-> IF d[j].key = key THEN [key |-> key, st |-> st] ELSE d[j]]
    ELSE Append(d, [key |-> key, st |-> st])

RECURSIVE Del(_, _)
Del(d, key) ==
    IF d = <<>> THEN <<>>
    ELSE IF Head(d).key = key THEN Tail(d)
    ELSE <<Head(d)>> \o Del(Tail(d), key)

---------------------------------------------------------------------------
(* start_state, lines 66-81: the value stored in state[key] *)

start_state(key, first_row, signed_q) ==
    [symbol |-> first_row.symbol,
     positionSide |-> first_row.positionSide,
     open_time |-> first_row.time,
     close_time |-> NaT,
     direction |-> IF signed_q > 0 THEN "LONG" ELSE "SHORT",
     qty_opened |-> 0,
     entry_notional |-> 0,
     max_abs_qty |-> 0,
     fills |-> 0,
     commission |-> 0,
     realizedPnl |-> 0,
     net_qty |-> 0]

\* entry_notional / entry_qty if entry_qty > 0 else 0.0, lines 88 and 170
EntryVwap(entry_notional, entry_qty) ==
    IF entry_qty > 0 THEN [num |-> entry_notional, den |-> entry_qty]
    ELSE [num |-> 0, den |-> 1]

\* ClosedRecord with the fees left out of net_pnl_after_fees
ClosedRecordGross(st) ==
    LET entry_qty == Abs(st.qty_opened)
    IN  [symbol |-> st.symbol,
         positionSide |-> st.positionSide,
         direction |-> st.direction,
         open_time |-> st.open_time,
         close_time |-> st.close_time,
         duration_min |-> IF notna(st.close_time)
                          THEN Some(st.close_time[1] - st.open_time)
                          ELSE None,
         max_position_qty |-> st.max_abs_qty,
         entry_qty |-> entry_qty,
         entry_vwap |-> EntryVwap(st.entry_notional, entry_qty),
         realizedPnl |-> st.realizedPnl,
         commission |-> st.commission,
         net_pnl_after_fees |-> st.realizedPnl,
         fills |-> st.fills]

\* the dict appended to positions, lines 87-105
ClosedRecord(st) ==
    LET entry_qty == Abs(st.qty_opened)
    IN  [symbol |-> st.symbol,
         positionSide |-> st.positionSide,
         direction |-> st.direction,
         open_time |-> st.open_time,
         close_time |-> st.close_time,
         duration_min |-> IF notna(st.close_time)
                          THEN Some(st.close_time[1] - st.open_time)
                          ELSE None,
         max_position_qty |-> st.max_abs_qty,
         entry_qty |-> entry_qty,
         entry_vwap |-> EntryVwap(st.entry_notional, entry_qty),
         realizedPnl |-> st.realizedPnl,
         commission |-> st.commission,
         net_pnl_after_fees |-> st.realizedPnl - st.commission,
         fills |-> st.fills]

\* flush_if_closed flushing a net quantity of exactly zero only
FlushIfExactlyZero(m, key) ==
    LET st == Get(m.state, key)
    IN  IF st.net_qty = 0
        THEN [state |-> Del(m.state, key),
              positions |-> Append(m.positions, ClosedRecord(st))]
        ELSE m

\* flush_if_closed, lines 83-106, on m = [state, positions]
flush_if_closed(m, key) ==
    LET st == Get(m.state, key)
    IN  IF Abs(st.net_qty) < MIN_QTY_THRESHOLD
        THEN [state |-> Del(m.state, key),
              positions |-> Append(m.positions, ClosedRecord(st))]
        ELSE m

---------------------------------------------------------------------------
(* One iteration of the for loop, lines 109-164, on m = [state, positions] *)

RowKey(row) == <<row.symbol, row.positionSide>>

\* lines 116-125: the state the row is applied to
EnsureState(m, row) ==
    LET key == RowKey(row)
        signed_q == signed_qty(row)
        m1 == IF ~HasKey(m.state, key)
              THEN [m EXCEPT !.state = Put(@, key, start_state(key, row, signed_q))]
              ELSE m
    IN  IF Abs(Get(m1.state, key).net_qty) < MIN_QTY_THRESHOLD
        THEN [m1 EXCEPT !.state = Put(@, key, start_state(key, row, signed_q))]
        ELSE m1

\* Accumulate with the entry sums fed by every fill, reducing ones included
AccumulateEveryFill(st, row) ==
    LET signed_q == signed_qty(row)
        new_net == st.net_qty + signed_q
    IN  [st EXCEPT !.fills = @ + 1,
                   !.commission = @ + row.commission,
                   !.realizedPnl = @ + row.realizedPnl,
                   !.qty_opened = @ + signed_q,
                   !.entry_notional = @ + row.price * Abs(signed_q),
                   !.net_qty = new_net,
                   !.max_abs_qty = Max(@, Abs(new_net))]

\* lines 127-141: the accumulators after the row
Accumulate(st, row) ==
    LET signed_q == signed_qty(row)
        price == row.price
        prev_net == st.net_qty
        new_net == prev_net + signed_q
        opening_sign == IF st.direction = "LONG" THEN 1 ELSE -1
        opens == opening_sign * signed_q > 0
    IN  [st EXCEPT !.fills = @ + 1,
                   !.commission = @ + row.commission,
                   !.realizedPnl = @ + row.realizedPnl,
                   !.qty_opened = IF opens THEN @ + signed_q ELSE @,
                   !.entry_notional = IF opens THEN @ + price * Abs(signed_q) ELSE @,
                   !.net_qty = new_net,
                   !.max_abs_qty = Max(@, Abs(new_net))]

\* the test of line 144 without its second half
CrossesZeroDownwards(prev_net, new_net) ==
    prev_net > 0 /\ new_net < 0

\* line 144
CrossesZero(prev_net, new_net) ==
    (prev_net > 0 /\ new_net < 0) \/ (prev_net < 0 /\ new_net > 0)

\* LeftoverState with the fill's fees and P&L booked on the new state too
LeftoverStateWithFees(key, row, leftover) ==
    [start_state(key, row, leftover) EXCEPT
        !.fills = 1,
        !.commission = row.commission,
        !.realizedPnl = row.realizedPnl,
        !.net_qty = leftover,
        !.qty_opened = leftover,
        !.entry_notional = row.price * Abs(leftover),
        !.max_abs_qty = Abs(leftover)]

\* lines 150-159: the state opened with the leftover of a flip
LeftoverState(key, row, leftover) ==
    [start_state(key, row, leftover) EXCEPT
        !.fills = 1,
        !.commission = 0,
        !.realizedPnl = 0,
        !.net_qty = leftover,
        !.qty_opened = leftover,
        !.entry_notional = row.price * Abs(leftover),
        !.max_abs_qty = Abs(leftover)]

ProcessRow(m, row) ==
    LET key == RowKey(row)
        m2 == EnsureState(m, row)
        st0 == Get(m2.state, key)
        prev_net == st0.net_qty
        st == Accumulate(st0, row)
        new_net == st.net_qty
        m3 == [m2 EXCEPT !.state = Put(@, key, st)]
    IN  IF CrossesZero(prev_net, new_net)
        THEN \* lines 145-159
             LET stc == [st EXCEPT !.close_time = Some(row.time), !.net_qty = 0]
                 m4 == flush_if_closed([m3 EXCEPT !.state = Put(@, key, stc)], key)
                 m5 == [m4 EXCEPT !.state = Put(@, key, LeftoverState(key, row, new_net))]
             IN  \* lines 162-164: `st` still names the flushed dict, whose
                 \* net_qty is 0.0; flush_if_closed reads state[key], the new one
                 IF Abs(stc.net_qty) < MIN_QTY_THRESHOLD
                 THEN flush_if_closed(m5, key)
                 ELSE m5
        ELSE \* lines 162-164
             IF Abs(st.net_qty) < MIN_QTY_THRESHOLD
             THEN flush_if_closed(
                      [m3 EXCEPT !.state = Put(@, key, [st EXCEPT !.close_time = Some(row.time)])],
                      key)
             ELSE m3

---------------------------------------------------------------------------
(* Lines 166-187: the records of the states still live after the loop *)

\* OpenRecord reporting the size of the residual instead of the residual
OpenRecordUnsigned(st) ==
    LET entry_qty == Abs(st.qty_opened)
    IN  [symbol |-> st.symbol,
         positionSide |-> st.positionSide,
         direction |-> st.direction,
         open_time |-> st.open_time,
         close_time |-> NaT,
         duration_min |-> None,
         max_position_qty |-> st.max_abs_qty,
         entry_qty |-> entry_qty,
         entry_vwap |-> EntryVwap(st.entry_notional, entry_qty),
         realizedPnl |-> st.realizedPnl,
         commission |-> st.commission,
         net_pnl_after_fees |-> st.realizedPnl - st.commission,
         fills |-> st.fills,
         status |-> "OPEN",
         net_qty |-> Some(Abs(st.net_qty))]

OpenRecord(st) ==
    LET entry_qty == Abs(st.qty_opened)
    IN  [symbol |-> st.symbol,
         positionSide |-> st.positionSide,
         direction |-> st.direction,
         open_time |-> st.open_time,
         close_time |-> NaT,
         duration_min |-> None,
         max_position_qty |-> st.max_abs_qty,
         entry_qty |-> entry_qty,
         entry_vwap |-> EntryVwap(st.entry_notional, entry_qty),
         realizedPnl |-> st.realizedPnl,
         commission |-> st.commission,
         net_pnl_after_fees |-> st.realizedPnl - st.commission,
         fills |-> st.fills,
         status |-> "OPEN",
         net_qty |-> Some(st.net_qty)]

OpenRecords(d) == [j \in DOMAIN d |-> OpenRecord(d[j].st)]

---------------------------------------------------------------------------
(* Lines 189-199: the returned frame *)

\* a row of positions_df after line 194 and the concat of line 195: the
\* column status is set, the column net_qty of open_df is filled with NaN
WithStatus(r) ==
    [c \in DOMAIN r \cup {"status", "net_qty"} |->
        IF c = "status" THEN "CLOSED"
        ELSE IF c = "net_qty" THEN NaN
        ELSE r[c]]

\* lines 190-195
Combined(closed, open) ==
    IF open # <<>>
    THEN [j \in DOMAIN closed |-> WithStatus(closed[j])] \o open
    ELSE closed

\* sort_values(["open_time"]): on a frame this short numpy's sort is an
\* insertion sort, which keeps rows of equal open_time in their order
RECURSIVE InsertByOpenTime(_, _)
InsertByOpenTime(s, x) ==
    IF s = <<>> THEN <<x>>
    ELSE IF x.open_time < Head(s).open_time THEN <<x>> \o s
    ELSE <<Head(s)>> \o InsertByOpenTime(Tail(s), x)

\* SortByOpenTime with the sort left out
Unsorted(s) == s

RECURSIVE SortByOpenTime(_)
SortByOpenTime(s) ==
    IF s = <<>> THEN <<>>
    ELSE InsertByOpenTime(SortByOpenTime(SubSeq(s, 1, Len(s) - 1)), s[Len(s)])

\* line 197 raises KeyError when the frame has no column open_time, which
\* is the frame built from no record at all
SortRaises(frame) == frame = <<>>

---------------------------------------------------------------------------
(* aggregate_trades_to_positions as a function of its argument: what the  *)
(* call returns, or that it raises.                                        *)

NoState == [state |-> <<>>, positions |-> <<>>]

RECURSIVE FoldRows(_, _)
FoldRows(m, s) ==
    IF s = <<>> THEN m ELSE FoldRows(ProcessRow(m, Head(s)), Tail(s))

Returned(closed, open) ==
    LET frame == Combined(closed, open)
    IN  IF SortRaises(frame)
        THEN [raised |-> TRUE, frame |-> <<>>]
        ELSE [raised |-> FALSE, frame |-> SortByOpenTime(frame)]

aggregate_trades_to_positions(d) ==
    LET m == FoldRows(NoState, SortRows(d))
    IN  Returned(m.positions, OpenRecords(m.state))

---------------------------------------------------------------------------
(* The inputs. *)

\* what the exchange reports for a fill executed at time t: the price of
\* that minute, and a commission and a realized P&L; the report of minute 4
\* is malformed, its price is negative
QuoteAt(t) ==
    CASE t = 1 -> [price |-> 1, commission |-> 0, realizedPnl |-> 0]
      [] t = 2 -> [price |-> 2, commission |-> 1, realizedPnl |-> 3]
      [] t = 4 -> [price |-> -1, commission |-> 1, realizedPnl |-> 0]
      [] OTHER -> [price |-> 3, commission |-> 2, realizedPnl |-> -1]

Body(s, ps, sd, q) ==
    [symbol |-> s, positionSide |-> ps, side |-> sd, qty |-> q]

\* net mode, one symbol: the accounting of one key.  Quantities 2, 3 and 4
\* leave residues of 0, of 1 (below the threshold) and of 2 (at it).
NetBodies ==
    {Body("BTCUSDT", "BOTH", sd, q) : sd \in {"BUY", "SELL"}, q \in {2, 3, 4}}
    \cup {Body("BTCUSDT", "BOTH", "BUY", 0)}

NetTimes == {1, 2, 3}

\* hedge mode, one symbol: the two keys LONG and SHORT
HedgeBodies ==
    {Body("BTCUSDT", ps, sd, q) :
        ps \in {"LONG", "SHORT"}, sd \in {"BUY", "SELL"}, q \in {2, 4}}

HedgeTimes == {1, 2}

\* two symbols, for the order of arrival
OrderBodies ==
    {Body("BTCUSDT", "LONG", "BUY", 2), Body("BTCUSDT", "LONG", "SELL", 4),
     Body("ETHUSDT", "LONG", "BUY", 2)}

OrderTimes == {1, 2}

OrderIds == {1, 2, 3}

\* every positionSide, one of them a value the code does not know
SideBodies ==
    {Body("BTCUSDT", ps, sd, q) :
        ps \in {"BOTH", "LONG", "SHORT", "UNKNOWN"}, sd \in {"BUY", "SELL"},
        q \in {2, 3}}

SideTimes == {1}

\* malformed input: fills at the negative price of minute 4, and a fill of
\* negative quantity
MalformedBodies ==
    {Body("BTCUSDT", "BOTH", sd, q) : sd \in {"BUY", "SELL"}, q \in {2, 4}}
    \cup {Body("BTCUSDT", "BOTH", "BUY", -2)}

MalformedTimes == {1, 2, 4}

\* fills large enough to flip a position into a larger one
OvershootBodies ==
    {Body("BTCUSDT", "BOTH", sd, q) : sd \in {"BUY", "SELL"}, q \in {2, 6}}

OvershootTimes == {1, 2}

Keys ==
    {"BTCUSDT", "ETHUSDT"} \X {"BOTH", "LONG", "SHORT", "UNKNOWN"}

Row(body, t, n) ==
    [symbol |-> body.symbol, positionSide |-> body.positionSide,
     side |-> body.side, qty |-> body.qty, price |-> QuoteAt(t).price,
     commission |-> QuoteAt(t).commission,
     realizedPnl |-> QuoteAt(t).realizedPnl, time |-> t, id |-> n]

\* a frame as main() reads it from the fills file: in order of time, the
\* ids increasing along it
FileOrder(d, bodies, times) ==
    \E n \in 0..MaxFills :
        \E b \in [1..n -> bodies], t \in [1..n -> times] :
            /\ \A k \in 1..(n - 1) : t[k] <= t[k + 1]
            /\ d = [k \in 1..n |-> Row(b[k], t[k], k)]

\* a frame in any order of arrival, every id unique within its symbol
AnyOrder(d, bodies, times, idset) ==
    \E n \in 0..MaxFills :
        \E b \in [1..n -> bodies], t \in [1..n -> times], ids \in [1..n -> idset] :
            /\ \A j, k \in 1..n :
                   (j # k /\ b[j].symbol = b[k].symbol) => ids[j] # ids[k]
            /\ d = [k \in 1..n |-> Row(b[k], t[k], ids[k])]

---------------------------------------------------------------------------
(* The state machine. *)

\* no fills file yet, write_fills_csv not yet called
NoFile == <<>>

StoreIdle ==
    /\ fills_csv = NoFile
    /\ fills_ret = <<>>

\* request_with_retry not called
RetryIdle ==
    /\ max_retries = MAX_RETRIES
    /\ attempt = 0
    /\ replies = <<>>
    /\ retry_pc = "idle"
    /\ retry_ret = <<>>

\* state_manager.load_state, lines 14-30: the state of a first run
DefaultState == [last_trade_time_ms |-> 0, last_id_by_symbol |-> <<>>]

\* the argument start_date of fetch_new_trades when it is None
NoDate == [given |-> FALSE, valid |-> FALSE, ms |-> 0]

\* no trade on the exchange, no state file, fetch_new_trades not called
FetchIdle ==
    /\ now = 0
    /\ state_file = DefaultState
    /\ wm_state = state_file
    /\ fetch_pc = "idle"
    /\ sym_idx = 1
    /\ start_date = NoDate
    /\ start_time_ms = 0
    /\ all_trades = <<>>
    /\ sent = <<>>
    /\ fetched = {}
    /\ succeeded = {}

\* the modules around the aggregator before their first call
IoIdle == StoreIdle /\ RetryIdle /\ FetchIdle

\* the call's locals before line 53
Locals ==
    /\ rows = <<>>
    /\ i = 1
    /\ state = <<>>
    /\ positions = <<>>
    /\ open_positions = <<>>
    /\ result = <<>>
    /\ pc = "start"
    /\ hist = [k \in Keys |-> <<>>]
    /\ flushedHist = <<>>
    /\ openHist = <<>>

Entry == IoIdle /\ Locals

Init == FileOrder(df, NetBodies, NetTimes) /\ Entry

InitHedge == FileOrder(df, HedgeBodies, HedgeTimes) /\ Entry

InitOrder == AnyOrder(df, OrderBodies, OrderTimes, OrderIds) /\ Entry

InitSides == FileOrder(df, SideBodies, SideTimes) /\ Entry

InitMalformed == FileOrder(df, MalformedBodies, MalformedTimes) /\ Entry

InitOvershoot == FileOrder(df, OvershootBodies, OvershootTimes) /\ Entry

\* lines 53-64
Normalize ==
    /\ pc = "start"
    /\ rows' = SortRows(df)
    /\ i' = 1
    /\ pc' = "loop"
    /\ UNCHANGED <<df, state, positions, open_positions, result,
                   hist, flushedHist, openHist>>
    /\ UNCHANGED ioVars

\* the net quantity the row is added to: that of the live state of its key
PrevNet(d, row) ==
    IF HasKey(d, RowKey(row)) /\ Abs(Get(d, RowKey(row)).net_qty) >= MIN_QTY_THRESHOLD
    THEN Get(d, RowKey(row)).net_qty
    ELSE 0

\* the fills of the position the row belongs to, the row included
HistWith(h, d, row) ==
    (IF HasKey(d, RowKey(row)) /\ Abs(Get(d, RowKey(row)).net_qty) >= MIN_QTY_THRESHOLD
     THEN h[RowKey(row)] ELSE <<>>)
    \o <<[delta |-> signed_qty(row), price |-> row.price]>>

\* lines 109-164, one row
ProcessFill ==
    /\ pc = "loop"
    /\ i <= Len(rows)
    /\ LET row == rows[i]
           key == RowKey(row)
           m == ProcessRow([state |-> state, positions |-> positions], row)
           flushed == Len(m.positions) - Len(positions)
           new_net == PrevNet(state, row) + signed_qty(row)
           mine == HistWith(hist, state, row)
           left == <<[delta |-> new_net, price |-> row.price]>>
       IN  /\ state' = m.state
           /\ positions' = m.positions
           /\ IF CrossesZero(PrevNet(state, row), new_net)
              THEN /\ flushedHist' = flushedHist \o <<mine>>
                                     \o (IF flushed = 2 THEN <<left>> ELSE <<>>)
                   /\ hist' = [hist EXCEPT ![key] = IF flushed = 2 THEN <<>> ELSE left]
              ELSE IF flushed = 1
              THEN /\ flushedHist' = Append(flushedHist, mine)
                   /\ hist' = [hist EXCEPT ![key] = <<>>]
              ELSE /\ flushedHist' = flushedHist
                   /\ hist' = [hist EXCEPT ![key] = mine]
    /\ i' = i + 1
    /\ UNCHANGED <<df, rows, open_positions, result, pc, openHist>>
    /\ UNCHANGED ioVars

\* lines 166-187
CollectOpen ==
    /\ pc = "loop"
    /\ i > Len(rows)
    /\ open_positions' = OpenRecords(state)
    /\ openHist' = [j \in DOMAIN state |-> hist[state[j].key]]
    /\ pc' = "combine"
    /\ UNCHANGED <<df, rows, i, state, positions, result, hist, flushedHist>>
    /\ UNCHANGED ioVars

\* lines 189-199
Combine ==
    /\ pc = "combine"
    /\ LET out == Returned(positions, open_positions)
       IN  /\ result' = out.frame
           /\ pc' = IF out.raised THEN "error" ELSE "done"
    /\ UNCHANGED <<df, rows, i, state, positions, open_positions,
                   hist, flushedHist, openHist>>
    /\ UNCHANGED ioVars

Next == Normalize \/ ProcessFill \/ CollectOpen \/ Combine

Spec == Init /\ [][Next]_vars

SpecHedge == InitHedge /\ [][Next]_vars

SpecOrder == InitOrder /\ [][Next]_vars

SpecSides == InitSides /\ [][Next]_vars

SpecMalformed == InitMalformed /\ [][Next]_vars

SpecOvershoot == InitOvershoot /\ [][Next]_vars

---------------------------------------------------------------------------
(* src/output_writer.py: write_fills_csv and the fills file.               *)
(*                                                                         *)
(* A trade is the dict the exchange returns, of which the writer reads id  *)
(* and time; symbol stands for the remaining fields.  A value of the       *)
(* column time is a pair of what it is (a pandas Timestamp in memory, a    *)
(* str in the file and in what read_csv returns) and of the instant.       *)

Timestamp(ms) == [kind |-> "Timestamp", at |-> ms]

TimeText(ms) == [kind |-> "str", at |-> ms]

\* line 44-45: pd.DataFrame(new_trades), time through pd.to_datetime
NewFrame(new_trades) ==
    [j \in DOMAIN new_trades |->
        [new_trades[j] EXCEPT !.time = Timestamp(new_trades[j].time)]]

\* line 53: drop_duplicates(subset=['id'], keep='first')
RECURSIVE DropDuplicates(_)
DropDuplicates(frame) ==
    IF frame = <<>> THEN <<>>
    ELSE LET front == SubSeq(frame, 1, Len(frame) - 1)
             last == frame[Len(frame)]
         IN  IF \E k \in DOMAIN front : front[k].id = last.id
             THEN DropDuplicates(front)
             ELSE Append(DropDuplicates(front), last)

\* lines 48-59: the frame to write, given whether the try block of lines
\* 49-54 ran through (read_ok) or raised
CombinedFills(file, df_new, read_ok) ==
    IF file # NoFile
    THEN (IF read_ok THEN DropDuplicates(file[1] \o df_new) ELSE df_new)
    ELSE df_new

\* line 62: sort_values('time'); rows of equal time keep their order
RECURSIVE InsertByTime(_, _)
InsertByTime(s, x) ==
    IF s = <<>> THEN <<x>>
    ELSE IF x.time.at < s[Len(s)].time.at
         THEN Append(InsertByTime(SubSeq(s, 1, Len(s) - 1), x), s[Len(s)])
         ELSE Append(s, x)

RECURSIVE SortByTime(_)
SortByTime(s) ==
    IF s = <<>> THEN <<>>
    ELSE InsertByTime(SortByTime(SubSeq(s, 1, Len(s) - 1)), s[Len(s)])

\* line 62: the column time of the frame holds str and Timestamp values side
\* by side; ordering a str against a Timestamp is a TypeError in pandas
MixedTimes(frame) ==
    \E j, k \in DOMAIN frame : frame[j].time.kind # frame[k].time.kind

\* line 25: to_csv writes every time as text
ToCsv(frame) ==
    [j \in DOMAIN frame |-> [frame[j] EXCEPT !.time = TimeText(frame[j].time.at)]]

Returns(v) == [raised |-> FALSE, value |-> v]

Raises(exc) == [raised |-> TRUE, value |-> exc]

\* write_fills_csv(new_trades): the file and the outcome after the call.
\* read_ok: the try block of lines 49-54 ran through; sort_ok: sort_values
\* ordered a column of mixed str and Timestamp values without raising.
write_fills_csv(file, new_trades, read_ok, sort_ok) ==
    IF new_trades = <<>>
    THEN [file |-> file, ret |-> Returns(0)]
    ELSE LET combined_df == CombinedFills(file, NewFrame(new_trades), read_ok)
         IN  IF MixedTimes(combined_df) /\ ~sort_ok
             THEN [file |-> file, ret |-> Raises("TypeError")]
             ELSE [file |-> <<ToCsv(SortByTime(combined_df))>>,
                   ret |-> Returns(Len(combined_df))]

\* the trades the exchange may report: two symbols whose ids overlap
TradeSymbols == {"BTCUSDT", "ETHUSDT"}

TradeIds == {1, 2}

TradeTimes == {1, 2}

Trade(s, n, t) == [symbol |-> s, id |-> n, time |-> t]

AllTrades == {Trade(s, n, t) : s \in TradeSymbols, n \in TradeIds, t \in TradeTimes}

\* the lists of trades main() may hand over
Batches == UNION {[1..n -> AllTrades] : n \in 0..MaxBatch}

InitStore == df = <<>> /\ Entry

\* one call of write_fills_csv, lines 30-68
WriteFills ==
    /\ \E new_trades \in Batches :
       \E read_ok \in BOOLEAN, sort_ok \in BOOLEAN :
           LET out == write_fills_csv(fills_csv, new_trades, read_ok, sort_ok)
           IN  /\ fills_csv' = out.file
               /\ fills_ret' = <<out.ret>>
    /\ UNCHANGED <<aggVars, retryVars, fetchVars>>

NextStore == WriteFills

SpecStore == InitStore /\ [][NextStore]_vars

---------------------------------------------------------------------------
(* src/binance_client.py: request_with_retry, lines 35-77.                 *)
(*                                                                         *)
(* A reply is what one session.request gave: a response with its status   *)
(* code, or a requests.exceptions.RequestException raised by the request   *)
(* itself (the timeout of line 57 bounds its wait).                        *)

Response(status_code) == [response |-> TRUE, status_code |-> status_code]

ConnectionError == [response |-> FALSE, status_code |-> 0]

StatusCodes == {200, 404, 418, 429, 500, 503}

Replies == {Response(c) : c \in StatusCodes} \cup {ConnectionError}

\* line 60
Retryable(status_code) == status_code \in {429, 418} \/ status_code >= 500

\* raise_for_status raising for the server errors alone
RaisesForServerErrorsOnly(status_code) == status_code >= 500

\* line 66: resp.raise_for_status() raises HTTPError, a RequestException
RaisesForStatus(status_code) == status_code >= 400

\* a call with the argument max_retries, at the head of the loop of line 55
RetryCall(m) ==
    /\ max_retries = m
    /\ attempt = 0
    /\ replies = <<>>
    /\ retry_pc = "loop"
    /\ retry_ret = <<>>

InitRetry ==
    /\ df = <<>> /\ Locals /\ StoreIdle /\ FetchIdle
    /\ \E m \in 0..MAX_RETRIES : RetryCall(m)

\* lines 56-75: one pass of the loop body up to its sleep, return or raise
Attempt ==
    /\ retry_pc = "loop"
    /\ attempt < max_retries
    /\ \E reply \in Replies :
        /\ replies' = Append(replies, reply)
        /\ IF reply.response /\ Retryable(reply.status_code)
           THEN retry_pc' = "sleep" /\ retry_ret' = retry_ret
           ELSE IF ~reply.response \/ RaisesForStatus(reply.status_code)
           THEN IF attempt < max_retries - 1
                THEN retry_pc' = "sleep" /\ retry_ret' = retry_ret
                ELSE retry_pc' = "raised" /\ retry_ret' = <<Raises("RuntimeError")>>
           ELSE retry_pc' = "returned" /\ retry_ret' = <<Returns(reply)>>
    /\ UNCHANGED <<max_retries, attempt>>
    /\ UNCHANGED <<aggVars, storeVars, fetchVars>>

\* lines 63 and 73: time.sleep of at most 60 seconds, then the next pass
Sleep ==
    /\ retry_pc = "sleep"
    /\ attempt' = attempt + 1
    /\ retry_pc' = "loop"
    /\ UNCHANGED <<max_retries, replies, retry_ret>>
    /\ UNCHANGED <<aggVars, storeVars, fetchVars>>

\* line 77: the loop ran out
Exhausted ==
    /\ retry_pc = "loop"
    /\ attempt >= max_retries
    /\ retry_pc' = "raised"
    /\ retry_ret' = <<Raises("RuntimeError")>>
    /\ UNCHANGED <<max_retries, attempt, replies>>
    /\ UNCHANGED <<aggVars, storeVars, fetchVars>>

NextRetry == Attempt \/ Sleep \/ Exhausted

\* the interpreter runs the call on: a request ends within its timeout, a
\* sleep within 60 seconds
SpecRetry == InitRetry /\ [][NextRetry]_vars /\ WF_vars(NextRetry)

---------------------------------------------------------------------------
(* src/binance_client.py: fetch_new_trades, with update_watermark of       *)
(* src/state_manager.py and the load and save of the state file by main(). *)
(*                                                                         *)
(* The exchange is the environment.  Its trades happen one by one along    *)
(* Timeline, each with an id that grows within its symbol; GET             *)
(* /fapi/v1/userTrades answers with at most `limit` trades of the symbol   *)
(* in ascending order: those of id >= fromId when fromId is sent, those of *)
(* time >= startTime when startTime is sent, the most recent ones when     *)
(* neither is.  config.MAX_LIMIT (1000) is 2 here, so that two trades fill *)
(* a page.                                                                 *)

Timeline ==
    <<Trade("ETHUSDT", 1, 1), Trade("BTCUSDT", 1, 2),
      Trade("BTCUSDT", 2, 3), Trade("ETHUSDT", 2, 4)>>

\* the argument symbols, in the order of get_symbols_to_query
Symbols == <<"BTCUSDT", "ETHUSDT">>

\* the argument start_date: a string strptime rejects, a date
BadDate == [given |-> TRUE, valid |-> FALSE, ms |-> 0]

Date(ms) == [given |-> TRUE, valid |-> TRUE, ms |-> ms]

StartDates == {NoDate, BadDate, Date(1), Date(3)}

\* the page on which request_with_retry raises; 0 when it never does
FailPages == {0, 1, 2}

SetMax(S) == CHOOSE x \in S : \A y \in S : y <= x

\* line 181: state.get("last_id_by_symbol", {}).get(symbol, 0)
LastId(st, symbol) ==
    IF symbol \in DOMAIN st.last_id_by_symbol
    THEN st.last_id_by_symbol[symbol] ELSE 0

\* state_manager.update_watermark, lines 61-87
update_watermark(st, trades) ==
    IF trades = <<>> THEN st
    ELSE LET max_time == SetMax({trades[j].time : j \in DOMAIN trades})
             symbols == {trades[j].symbol : j \in DOMAIN trades}
             max_id(s) == SetMax({trades[j].id : j \in {k \in DOMAIN trades :
                                                         trades[k].symbol = s}})
         IN  [last_trade_time_ms |-> Max(st.last_trade_time_ms, max_time),
              last_id_by_symbol |->
                  [s \in DOMAIN st.last_id_by_symbol \cup symbols |->
                      IF s \in symbols THEN max_id(s)
                      ELSE st.last_id_by_symbol[s]]]

FirstN(s, n) == SubSeq(s, 1, IF Len(s) < n THEN Len(s) ELSE n)

LastN(s, n) == SubSeq(s, IF Len(s) < n THEN 1 ELSE Len(s) - n + 1, Len(s))

\* lines 187-198: the parameters of a request
Params(symbol, from_id, start_ms) ==
    [symbol |-> symbol,
     fromId |-> IF from_id > 0 THEN <<from_id + 1>> ELSE <<>>,
     startTime |-> IF from_id > 0 THEN <<>>
                   ELSE IF start_ms > 0 THEN <<start_ms>> ELSE <<>>]

\* line 205-206: what the exchange answers, onExchange being its trades
UserTrades(onExchange, params) ==
    LET mine == SelectSeq(onExchange, LAMBDA t : t.symbol = params.symbol)
    IN  IF params.fromId # <<>>
        THEN FirstN(SelectSeq(mine, LAMBDA t : t.id >= params.fromId[1]), MAX_LIMIT)
        ELSE IF params.startTime # <<>>
        THEN FirstN(SelectSeq(mine, LAMBDA t : t.time >= params.startTime[1]), MAX_LIMIT)
        ELSE LastN(mine, MAX_LIMIT)

\* lines 185-223: the pagination loop from its page `page` on.  acc holds
\* trades_for_symbol and the requests sent so far.
RECURSIVE Paginate(_, _, _, _, _, _, _)
Paginate(onExchange, symbol, start_ms, from_id, page, fail_page, acc) ==
    LET params == Params(symbol, from_id, start_ms)
        requests == Append(acc.sent, params)
        trades == UserTrades(onExchange, params)
        kept == IF start_ms > 0 /\ from_id = 0
                THEN SelectSeq(trades, LAMBDA t : t.time >= start_ms)
                ELSE trades
    IN  IF page = fail_page
        THEN [raised |-> TRUE, trades |-> acc.trades, sent |-> requests]
        ELSE IF trades = <<>>
        THEN [raised |-> FALSE, trades |-> acc.trades, sent |-> requests]
        ELSE IF kept = <<>>
        THEN [raised |-> TRUE, trades |-> acc.trades, sent |-> requests]
        ELSE IF Len(kept) < MAX_LIMIT
        THEN [raised |-> FALSE, trades |-> acc.trades \o kept, sent |-> requests]
        ELSE Paginate(onExchange, symbol, start_ms, kept[Len(kept)].id,
                      page + 1, fail_page,
                      [trades |-> acc.trades \o kept, sent |-> requests])

\* the trades that have happened
OnExchange == SubSeq(Timeline, 1, now)

InitFetch ==
    /\ df = <<>> /\ Locals /\ StoreIdle /\ RetryIdle
    /\ FetchIdle

\* the exchange executes the next trade, between two runs
TradeHappens ==
    /\ fetch_pc \in {"idle", "saved"}
    /\ now < Len(Timeline)
    /\ now' = now + 1
    /\ fetch_pc' = "idle"
    /\ UNCHANGED <<state_file, wm_state, sym_idx, start_date,
                   start_time_ms, all_trades, sent, fetched, succeeded>>
    /\ UNCHANGED <<aggVars, storeVars, retryVars>>

\* main() line 61 and fetch_new_trades lines 158-176, start_date among dates
StartRun(dates) ==
    /\ fetch_pc \in {"idle", "saved"}
    /\ \E d \in dates :
        /\ start_date' = d
        /\ start_time_ms' = IF d.given THEN d.ms
                            ELSE state_file.last_trade_time_ms
        /\ fetch_pc' = IF d.given /\ ~d.valid THEN "returned" ELSE "symbols"
    /\ wm_state' = state_file
    /\ all_trades' = <<>>
    /\ sym_idx' = 1
    /\ sent' = <<>>
    /\ succeeded' = {}
    /\ UNCHANGED <<now, state_file, fetched>>
    /\ UNCHANGED <<aggVars, storeVars, retryVars>>

\* lines 178-232, one symbol
FetchSymbol ==
    /\ fetch_pc = "symbols"
    /\ sym_idx <= Len(Symbols)
    /\ \E fail_page \in FailPages :
        LET symbol == Symbols[sym_idx]
            got == Paginate(OnExchange, symbol, start_time_ms,
                            LastId(wm_state, symbol), 1, fail_page,
                            [trades |-> <<>>, sent |-> <<>>])
        IN  /\ sent' = sent \o got.sent
            /\ IF got.raised
               THEN UNCHANGED <<all_trades, wm_state, succeeded>>
               ELSE /\ all_trades' = all_trades \o got.trades
                    /\ wm_state' = update_watermark(wm_state, got.trades)
                    /\ succeeded' = succeeded \cup {symbol}
    /\ sym_idx' = sym_idx + 1
    /\ UNCHANGED <<now, state_file, fetch_pc, start_date, start_time_ms, fetched>>
    /\ UNCHANGED <<aggVars, storeVars, retryVars>>

\* line 235
ReturnTrades ==
    /\ fetch_pc = "symbols"
    /\ sym_idx > Len(Symbols)
    /\ fetch_pc' = "returned"
    /\ UNCHANGED <<now, state_file, wm_state, sym_idx, start_date,
                   start_time_ms, all_trades, sent, fetched, succeeded>>
    /\ UNCHANGED <<aggVars, storeVars, retryVars>>

\* main() lines 87-92: the returned state is saved, unless no trade came,
\* and then it is the state that was loaded
SaveState ==
    /\ fetch_pc = "returned"
    /\ state_file' = IF all_trades = <<>> THEN state_file ELSE wm_state
    /\ fetched' = fetched \cup {all_trades[j] : j \in DOMAIN all_trades}
    /\ fetch_pc' = "saved"
    /\ UNCHANGED <<now, wm_state, sym_idx, start_date, start_time_ms,
                   all_trades, sent, succeeded>>
    /\ UNCHANGED <<aggVars, storeVars, retryVars>>

NextFetch ==
    TradeHappens \/ StartRun(StartDates) \/ FetchSymbol \/ ReturnTrades \/ SaveState

SpecFetch == InitFetch /\ [][NextFetch]_vars

\* runs on the watermark alone
NextIncremental ==
    TradeHappens \/ StartRun({NoDate}) \/ FetchSymbol \/ ReturnTrades \/ SaveState

SpecIncremental == InitFetch /\ [][NextIncremental]_vars

---------------------------------------------------------------------------
(* src/main.py: main(), lines 41-126, from load_state to write_fills_csv.  *)
(* A run is the run of fetch_new_trades above between the load of the      *)
(* state file and the steps that follow the fetch; the next run, and the   *)
(* next trade on the exchange, wait for main() to end.                     *)

InitMain == InitFetch

MainTradeHappens == fetch_pc = "idle" /\ TradeHappens

\* lines 61-85
MainStartRun == fetch_pc = "idle" /\ StartRun(StartDates)

\* line 92 when save_state fails: its except clause (state_manager lines
\* 46-47) logs the error and returns, the state file is as it was
SaveStateFails ==
    /\ fetch_pc = "returned"
    /\ all_trades # <<>>
    /\ fetched' = fetched \cup {all_trades[j] : j \in DOMAIN all_trades}
    /\ fetch_pc' = "saved"
    /\ UNCHANGED <<now, state_file, wm_state, sym_idx, start_date,
                   start_time_ms, all_trades, sent, succeeded>>
    /\ UNCHANGED <<aggVars, storeVars, retryVars>>

\* lines 87-89: no trade was fetched, main() returns 0
ReturnNoTrades ==
    /\ fetch_pc = "saved"
    /\ all_trades = <<>>
    /\ fetch_pc' = "idle"
    /\ UNCHANGED <<now, state_file, wm_state, sym_idx, start_date,
                   start_time_ms, all_trades, sent, fetched, succeeded>>
    /\ UNCHANGED <<aggVars, storeVars, retryVars>>

\* line 96: write_fills_csv(trades); when it raises, line 121 returns 1,
\* otherwise main() goes on to the aggregation
WriteFetched ==
    /\ fetch_pc = "saved"
    /\ all_trades # <<>>
    /\ \E read_ok \in BOOLEAN, sort_ok \in BOOLEAN :
           LET out == write_fills_csv(fills_csv, all_trades, read_ok, sort_ok)
           IN  /\ fills_csv' = out.file
               /\ fills_ret' = <<out.ret>>
    /\ fetch_pc' = "idle"
    /\ UNCHANGED <<now, state_file, wm_state, sym_idx, start_date,
                   start_time_ms, all_trades, sent, fetched, succeeded>>
    /\ UNCHANGED <<aggVars, retryVars>>

NextMain ==
    \/ MainTradeHappens \/ MainStartRun \/ FetchSymbol \/ ReturnTrades
    \/ SaveState \/ SaveStateFails \/ ReturnNoTrades \/ WriteFetched

SpecMain == InitMain /\ [][NextMain]_vars

---------------------------------------------------------------------------
(* What the claims speak of. *)

\* a row of the loop is about to be processed
Looping == pc = "loop" /\ i <= Len(rows)

\* the net quantity of the row's key before and after the row
NetBefore == PrevNet(state, rows[i])

NetAfter == NetBefore + signed_qty(rows[i])

\* the row moves the net quantity of its key through zero
FlipFill == Looping /\ NetBefore * NetAfter < 0

DirSign(direction) == IF direction = "LONG" THEN 1 ELSE -1

\* over the fills h of a position: the sum of |delta|, and of price * |delta|,
\* of the fills whose delta has the sign sg
RECURSIVE SumQty(_, _)
SumQty(h, sg) ==
    IF h = <<>> THEN 0
    ELSE (IF Head(h).delta * sg > 0 THEN Abs(Head(h).delta) ELSE 0)
         + SumQty(Tail(h), sg)

RECURSIVE SumNotional(_, _)
SumNotional(h, sg) ==
    IF h = <<>> THEN 0
    ELSE (IF Head(h).delta * sg > 0 THEN Head(h).price * Abs(Head(h).delta) ELSE 0)
         + SumNotional(Tail(h), sg)

\* the record r has the entry quantity and the entry price of the fills h
EntryOf(r, h) ==
    LET q == SumQty(h, DirSign(r.direction))
        nt == SumNotional(h, DirSign(r.direction))
    IN  /\ r.entry_qty = q
        /\ q > 0 => r.entry_vwap = [num |-> nt, den |-> q]
        /\ q = 0 => r.entry_vwap = [num |-> 0, den |-> 1]

\* the rows of a frame, each as often as it occurs
BagOf(s) ==
    [x \in {s[j] : j \in DOMAIN s} |-> Cardinality({j \in DOMAIN s : s[j] = x})]

\* a row without the columns only the combined frame has
Strip(r) == [c \in DOMAIN r \ {"status", "net_qty"} |-> r[c]]

Stripped(s) == [j \in DOMAIN s |-> Strip(s[j])]

HasStatus(r, status) == "status" \in DOMAIN r /\ r.status = status

IsOpenRow(r) == HasStatus(r, "OPEN")

IsClosedRow(r) == ~IsOpenRow(r)

\* what the call on df returned or raised, once it has ended
Ended == pc \in {"done", "error"}

Outcome == [raised |-> pc = "error", frame |-> result]

---------------------------------------------------------------------------
(* C1 - A fill that moves the net quantity of its key through zero makes    *)
(* exactly two records: the first is closed at the fill's time and carries  *)
(* the fill's commission and realized P&L, the second is opened at the      *)
(* fill's time with commission 0, realizedPnl 0 and fills 1.  The second    *)
(* is the key's new state, or a record already flushed.                     *)
C1_FlipMakesTwoRecords ==
    [][FlipFill =>
        LET row == rows[i]
            key == RowKey(row)
            old == Get(state, key)
            n == Len(positions)
            live == HasKey(state', key)
        IN  /\ Len(positions') + (IF live THEN 1 ELSE 0) = n + 2
            /\ Len(positions') > n
            /\ SubSeq(positions', 1, n) = positions
            /\ positions'[n + 1].close_time = Some(row.time)
            /\ positions'[n + 1].commission = old.commission + row.commission
            /\ positions'[n + 1].realizedPnl = old.realizedPnl + row.realizedPnl
            /\ positions'[n + 1].fills = old.fills + 1
            /\ LET second == IF live THEN Get(state', key) ELSE positions'[n + 2]
               IN  /\ second.open_time = row.time
                   /\ second.commission = 0
                   /\ second.realizedPnl = 0
                   /\ second.fills = 1
    ]_vars

\* two fills have been processed: the second, which had a commission,
\* closed the position of the first and left a state of its own
C1_Witness ==
    /\ pc = "loop" /\ i = 3
    /\ Len(positions) = 1 /\ positions[1].fills = 2 /\ positions[1].commission > 0
    /\ Len(state) = 1 /\ state[1].st.fills = 1 /\ state[1].st.commission = 0
    /\ state[1].st.direction # positions[1].direction

---------------------------------------------------------------------------
(* C2 - Every record, closed or open, has                                   *)
(* net_pnl_after_fees = realizedPnl - commission.                           *)
C2_NetPnlAfterFees ==
    \A s \in {positions, open_positions, result} :
        \A j \in DOMAIN s :
            s[j].net_pnl_after_fees = s[j].realizedPnl - s[j].commission

\* the returned frame holds a closed and an open record with fees and P&L
C2_Witness ==
    /\ pc = "done"
    /\ \E j, k \in DOMAIN result :
           /\ HasStatus(result[j], "CLOSED") /\ HasStatus(result[k], "OPEN")
           /\ result[j].commission > 0 /\ result[j].realizedPnl # 0
           /\ result[k].commission > 0 /\ result[k].realizedPnl # 0

---------------------------------------------------------------------------
(* C3 - The entry quantity of every record, and the notional behind its     *)
(* entry_vwap, are the sums of |delta| and of price * |delta| over the      *)
(* fills of the position whose delta has the sign of its direction (the     *)
(* leftover of a flip being the first fill of the position it opens); the   *)
(* other fills add nothing, and entry_vwap is 0 when entry_qty is 0.        *)
C3_EntrySums ==
    /\ \A j \in DOMAIN positions : EntryOf(positions[j], flushedHist[j])
    /\ \A j \in DOMAIN open_positions : EntryOf(open_positions[j], openHist[j])
    /\ \A j \in DOMAIN state :
           LET st == state[j].st
               h == hist[state[j].key]
           IN  /\ Abs(st.qty_opened) = SumQty(h, DirSign(st.direction))
               /\ st.entry_notional = SumNotional(h, DirSign(st.direction))

\* a closed position with two opening fills at different prices and a
\* reducing fill
C3_Witness ==
    \E j \in DOMAIN positions :
        LET h == flushedHist[j]
            sg == DirSign(positions[j].direction)
        IN  \E a, b, c \in DOMAIN h :
                /\ h[a].delta * sg > 0 /\ h[b].delta * sg > 0
                /\ h[a].price # h[b].price
                /\ h[c].delta * sg < 0

\* a closed position of entry quantity 0
C3_ZeroEntryReached == \E j \in DOMAIN positions : positions[j].entry_qty = 0

---------------------------------------------------------------------------
(* C7 - A fill that leaves the net quantity of its key below the threshold  *)
(* in magnitude, whatever the sign of the residue, closes the position as   *)
(* one record whose close_time is the fill's time; no position is opened    *)
(* from the residue and the key has no live state afterwards.               *)
C7_NearZeroClosesAsOneRecord ==
    [][(Looping /\ Abs(NetAfter) < MIN_QTY_THRESHOLD) =>
        LET row == rows[i]
            n == Len(positions)
        IN  /\ Len(positions') = n + 1
            /\ SubSeq(positions', 1, n) = positions
            /\ positions'[n + 1].close_time = Some(row.time)
            /\ ~HasKey(state', RowKey(row))
    ]_vars

---------------------------------------------------------------------------
(* C8 - Every record of the returned frame carries a status: CLOSED if it   *)
(* was flushed in the loop, OPEN if it comes from a state live at the end.  *)
C8_EveryRecordHasStatus ==
    pc = "done" =>
        /\ \A j \in DOMAIN result :
               "status" \in DOMAIN result[j] /\ result[j].status \in {"CLOSED", "OPEN"}
        /\ Len(SelectSeq(result, IsOpenRow)) = Len(open_positions)

---------------------------------------------------------------------------
(* C10 - On a frame of no fills the call returns an empty frame and does    *)
(* not raise.                                                               *)
C10_EmptyInputEmptyOutput ==
    (df = <<>> /\ Ended) => (pc = "done" /\ result = <<>>)

---------------------------------------------------------------------------
(* C9 - The returned frame holds every record flushed in the loop and one   *)
(* record for every state live at the end, and nothing else, in             *)
(* non-decreasing order of open_time.                                       *)
C9_OutputIsSortedUnion ==
    pc = "done" =>
        /\ BagOf(Stripped(result)) = BagOf(Stripped(positions \o open_positions))
        /\ BagOf(SelectSeq(result, IsOpenRow)) = BagOf(open_positions)
        /\ Len(open_positions) = Len(state)
        /\ \A j \in 1..(Len(result) - 1) :
               result[j].open_time <= result[j + 1].open_time

\* closed and open records were collected, and sorting moved one of them
C9_Witness ==
    /\ pc = "done"
    /\ positions # <<>> /\ open_positions # <<>>
    /\ result # Combined(positions, open_positions)

---------------------------------------------------------------------------
(* C4 - The records of the key LONG are those returned when the fills of    *)
(* SHORT are taken out of the input, and the records of SHORT those         *)
(* returned when the fills of LONG are taken out.                           *)
RowsOfSide(frame, ps) ==
    LET Mine(r) == r.positionSide = ps
    IN  SelectSeq(frame, Mine)

C4_KeysAreIndependent ==
    pc = "done" =>
        \A ps \in {"LONG", "SHORT"} :
            RowsOfSide(result, ps)
                = RowsOfSide(aggregate_trades_to_positions(RowsOfSide(df, ps)).frame, ps)

\* the same, on the columns every frame has
C4_IndependentButForStatus ==
    pc = "done" =>
        \A ps \in {"LONG", "SHORT"} :
            Stripped(RowsOfSide(result, ps))
                = Stripped(RowsOfSide(aggregate_trades_to_positions(RowsOfSide(df, ps)).frame, ps))

---------------------------------------------------------------------------
(* C5 - When the input is extended with fills later than all of its own,    *)
(* every record it returned for a closed position is returned again,        *)
(* every column unchanged.  The earlier input is df up to a time tau.       *)
UpTo(frame, tau) ==
    LET Early(r) == r.time <= tau
    IN  SelectSeq(frame, Early)

C5_ClosedRecordsUnchanged ==
    pc = "done" =>
        \A tau \in NetTimes :
            LET before == aggregate_trades_to_positions(UpTo(df, tau)).frame
            IN  \A j \in DOMAIN before :
                    IsClosedRow(before[j]) =>
                        \E k \in DOMAIN result : result[k] = before[j]

\* the same, on the columns every frame has
C5_UnchangedButForStatus ==
    pc = "done" =>
        \A tau \in NetTimes :
            LET before == aggregate_trades_to_positions(UpTo(df, tau)).frame
            IN  \A j \in DOMAIN before :
                    IsClosedRow(before[j]) =>
                        \E k \in DOMAIN result : Strip(result[k]) = Strip(before[j])

---------------------------------------------------------------------------
(* C6 - What the call returns does not depend on the order in which the     *)
(* fills arrive, when every id is unique within its symbol: the rows are    *)
(* processed in strictly ascending order of (symbol, positionSide, time,    *)
(* id), and exchanging two neighbouring rows of the input, hence any        *)
(* reordering of it, leaves the outcome as it is.                           *)
Exchanged(frame, k) ==
    [j \in DOMAIN frame |->
        IF j = k THEN frame[k + 1] ELSE IF j = k + 1 THEN frame[k] ELSE frame[j]]

Ascending(a, b) ==
    \/ SymbolRank(a.symbol) < SymbolRank(b.symbol)
    \/ a.symbol = b.symbol
         /\ PositionSideRank(a.positionSide) < PositionSideRank(b.positionSide)
    \/ a.symbol = b.symbol /\ a.positionSide = b.positionSide /\ a.time < b.time
    \/ a.symbol = b.symbol /\ a.positionSide = b.positionSide /\ a.time = b.time
         /\ a.id < b.id

C6_ArrivalOrderIsIrrelevant ==
    /\ pc # "start" =>
           /\ BagOf(rows) = BagOf(df)
           /\ \A j \in 1..(Len(rows) - 1) : Ascending(rows[j], rows[j + 1])
    /\ Ended =>
           \A k \in 1..(Len(df) - 1) :
               aggregate_trades_to_positions(Exchanged(df, k)) = Outcome

\* three fills of one key arrived in an order other than the one they are
\* processed in, two of them at the same time
C6_Witness ==
    /\ pc = "done" /\ Len(df) = 3 /\ rows # df
    /\ \A j, k \in DOMAIN df : RowKey(df[j]) = RowKey(df[k])
    /\ \E j, k \in DOMAIN df : j # k /\ df[j].time = df[k].time

---------------------------------------------------------------------------
(* C11 - The signed quantity of a fill is a function of its positionSide,  *)
(* side and qty alone: +qty for (LONG, BUY), -qty for (LONG, SELL), +qty   *)
(* for (SHORT, SELL), -qty for (SHORT, BUY), +qty for (BOTH, BUY), -qty    *)
(* for (BOTH, SELL); a positionSide the code does not know counts as BOTH. *)
(* The loop adds exactly this number to the net quantity of the key.       *)
SignedQtyTable(ps, side, qty) ==
    CASE ps = "LONG" /\ side = "BUY" -> qty
      [] ps = "LONG" /\ side = "SELL" -> -qty
      [] ps = "SHORT" /\ side = "SELL" -> qty
      [] ps = "SHORT" /\ side = "BUY" -> -qty
      [] ps = "BOTH" /\ side = "BUY" -> qty
      [] ps = "BOTH" /\ side = "SELL" -> -qty

C11_SignedQtyTable ==
    [][Looping =>
        LET row == rows[i]
            known == row.positionSide \in {"LONG", "SHORT", "BOTH"}
            expected == SignedQtyTable(
                            IF known THEN row.positionSide ELSE "BOTH",
                            row.side, row.qty)
            after == IF HasKey(state', RowKey(row))
                     THEN Get(state', RowKey(row)).net_qty ELSE 0
        IN  /\ signed_qty(row) = expected
            /\ \A other \in {r \in {df[j] : j \in DOMAIN df} :
                                r.positionSide = row.positionSide
                                /\ r.side = row.side /\ r.qty = row.qty} :
                   signed_qty(other) = expected
            /\ Abs(NetBefore + expected) >= MIN_QTY_THRESHOLD
                   => after = NetBefore + expected
    ]_vars

\* a SELL of a positionSide the code does not know has made its key short,
\* after a SELL of the SHORT side made that key long
C11_Witness ==
    /\ pc = "loop" /\ i = 3
    /\ rows[1].positionSide = "SHORT" /\ rows[1].side = "SELL"
    /\ rows[2].positionSide = "UNKNOWN" /\ rows[2].side = "SELL"
    /\ Get(state, RowKey(rows[1])).net_qty = rows[1].qty
    /\ Get(state, RowKey(rows[2])).net_qty = -rows[2].qty

---------------------------------------------------------------------------
(* C12 - No record is computed from a negative entry notional or a         *)
(* negative entry quantity: once the entry notional or the entry quantity  *)
(* of a state is negative, the call has ended in an error, so that while   *)
(* it runs and when it returns no live state and no record has one.        *)
NegativeEntry(notional, qty) == notional < 0 \/ qty < 0

C12_NegativeEntryIsAnError ==
    pc # "error" =>
        /\ \A j \in DOMAIN state :
               ~NegativeEntry(state[j].st.entry_notional,
                              Abs(state[j].st.qty_opened))
        /\ \A r \in {positions[j] : j \in DOMAIN positions}
                    \cup {open_positions[j] : j \in DOMAIN open_positions}
                    \cup {result[j] : j \in DOMAIN result} :
               ~NegativeEntry(r.entry_vwap.num, r.entry_qty)

---------------------------------------------------------------------------
(* C13 - The fills file is append-only: whatever the batch of new trades   *)
(* and whatever the outcome of reading the existing file, every fill in    *)
(* the file before a call of write_fills_csv is in the file after it, as   *)
(* often as before and with every field unchanged.                         *)
FileRows(file) == IF file = NoFile THEN <<>> ELSE file[1]

C13_FillsAreAppendOnly ==
    [][\A r \in DOMAIN BagOf(FileRows(fills_csv)) :
          /\ r \in DOMAIN BagOf(FileRows(fills_csv'))
          /\ BagOf(FileRows(fills_csv'))[r] >= BagOf(FileRows(fills_csv))[r]
    ]_vars

---------------------------------------------------------------------------
(* C14 - request_with_retry ends, after at most max_retries requests.  It  *)
(* returns a response only if the status of that response is not 429, not  *)
(* 418, below 500 and passes raise_for_status; the response returned is    *)
(* that of the last request made.  If none of the max_retries attempts     *)
(* gave such a response, it raises RuntimeError.                           *)
GoodStatus(reply) ==
    /\ reply.response
    /\ reply.status_code \notin {429, 418}
    /\ reply.status_code < 400

C14_RetryBounded ==
    /\ Len(replies) <= max_retries
    /\ retry_pc = "returned" =>
           /\ replies # <<>>
           /\ GoodStatus(replies[Len(replies)])
           /\ Len(retry_ret) = 1 /\ ~retry_ret[1].raised
           /\ retry_ret[1].value = replies[Len(replies)]
    /\ retry_pc = "raised" =>
           /\ Len(retry_ret) = 1 /\ retry_ret[1].raised
           /\ retry_ret[1].value = "RuntimeError"
           /\ Len(replies) = max_retries
           /\ \A k \in DOMAIN replies : ~GoodStatus(replies[k])
    /\ retry_pc \in {"loop", "sleep"} =>
           /\ retry_ret = <<>>
           /\ \A k \in DOMAIN replies : ~GoodStatus(replies[k])

C14_RetryTerminates ==
    /\ []C14_RetryBounded
    /\ <>(retry_pc \in {"returned", "raised"})

\* a response returned by the third request, after a rate limit and a
\* connection error
C14_Witness ==
    /\ retry_pc = "returned"
    /\ replies = <<Response(429), ConnectionError, Response(200)>>
    /\ max_retries = MAX_RETRIES

\* RuntimeError after the last of max_retries requests, a client error
C14_RaisedReached ==
    /\ retry_pc = "raised"
    /\ Len(replies) = MAX_RETRIES
    /\ replies[MAX_RETRIES] = Response(404)

---------------------------------------------------------------------------
(* C15 - With a valid start_date the stored watermark is overridden for    *)
(* every queried symbol: every symbol is queried, and the first request    *)
(* of each symbol carries startTime = start_date and no fromId, whatever   *)
(* last_trade_time_ms and last_id_by_symbol the state file holds.          *)
RequestsOf(symbol) == SelectSeq(sent, LAMBDA q : q.symbol = symbol)

C15_StartDateOverridesWatermark ==
    (fetch_pc \in {"symbols", "returned"} /\ start_date.given /\ start_date.valid) =>
        \A k \in 1..Len(Symbols) :
            /\ k < sym_idx => RequestsOf(Symbols[k]) # <<>>
            /\ RequestsOf(Symbols[k]) # <<>> =>
                   /\ RequestsOf(Symbols[k])[1].startTime = <<start_date.ms>>
                   /\ RequestsOf(Symbols[k])[1].fromId = <<>>

---------------------------------------------------------------------------
(* C16 - Fetching on the watermark misses no trade: over any sequence of   *)
(* runs without start_date, each followed by the save of the returned      *)
(* state, in which the fetch of a symbol may fail, every trade of a symbol *)
(* that the exchange holds has been returned by some run once a run has    *)
(* fetched that symbol without error.                                      *)
C16_NoTradeIsMissed ==
    fetch_pc = "saved" =>
        \A s \in succeeded :
            \A k \in 1..now :
                Timeline[k].symbol = s => Timeline[k] \in fetched

---------------------------------------------------------------------------
(* C17 - After each fill is fully processed no key holds a live state      *)
(* whose net quantity is below the threshold in size; this includes the    *)
(* state opened from the leftover of a flip.                               *)
C17_NoLiveStateIsFlat ==
    \A j \in DOMAIN state : Abs(state[j].st.net_qty) >= MIN_QTY_THRESHOLD

\* a flip whose leftover is below the threshold has been processed: both
\* the position and the leftover are flushed, the key holds no state
C17_Witness ==
    /\ pc = "loop" /\ i = 3
    /\ Abs(signed_qty(rows[1]) + signed_qty(rows[2])) = 1
    /\ signed_qty(rows[1]) * (signed_qty(rows[1]) + signed_qty(rows[2])) < 0
    /\ state = <<>>
    /\ Len(positions) = 2

\* a reducing fill left a residue below the threshold on the position's side
C17_ResidueReached ==
    /\ pc = "loop" /\ i = 3
    /\ Abs(signed_qty(rows[1]) + signed_qty(rows[2])) = 1
    /\ signed_qty(rows[1]) * (signed_qty(rows[1]) + signed_qty(rows[2])) > 0
    /\ state = <<>>
    /\ Len(positions) = 1

---------------------------------------------------------------------------
(* C18 - At every point a key has at most one live state.  At the end of   *)
(* the stream every key still live yields exactly one record: status OPEN, *)
(* no close_time, no duration, net_qty the state's residual; so the        *)
(* result holds at most one OPEN record per key, and none for a key that   *)
(* is not live.                                                            *)
OpenRowsOf(frame, key) ==
    SelectSeq(frame, LAMBDA r : IsOpenRow(r) /\ <<r.symbol, r.positionSide>> = key)

IsOpenRecordOf(r, st) ==
    /\ HasStatus(r, "OPEN")
    /\ r.close_time = NaT
    /\ r.duration_min = None
    /\ r.net_qty = Some(st.net_qty)
    /\ r.open_time = st.open_time
    /\ r.direction = st.direction

C18_OneOpenRecordPerLiveKey ==
    /\ \A j, k \in DOMAIN state : state[j].key = state[k].key => j = k
    /\ \A j \in DOMAIN state :
           state[j].key = <<state[j].st.symbol, state[j].st.positionSide>>
    /\ pc \in {"combine", "done", "error"} =>
           /\ Len(open_positions) = Len(state)
           /\ \A j \in DOMAIN state :
                  /\ IsOpenRecordOf(open_positions[j], state[j].st)
                  /\ <<open_positions[j].symbol, open_positions[j].positionSide>>
                         = state[j].key
    /\ pc = "done" =>
           \A key \in Keys :
               IF HasKey(state, key)
               THEN /\ Len(OpenRowsOf(result, key)) = 1
                    /\ IsOpenRecordOf(OpenRowsOf(result, key)[1], Get(state, key))
               ELSE OpenRowsOf(result, key) = <<>>

\* both keys of the symbol end live, one of them short, next to a closed
\* position
C18_Witness ==
    /\ pc = "done" /\ Len(state) = 2 /\ Len(result) = 3
    /\ \E j \in DOMAIN state : state[j].st.net_qty < 0
    /\ \E j \in DOMAIN result : IsClosedRow(result[j])

---------------------------------------------------------------------------
(* C19 - After every processed fill the direction of each live state       *)
(* agrees with the sign of its net quantity (LONG iff positive, SHORT iff  *)
(* negative).  The direction of a state is never modified: a fill that     *)
(* does not flip leaves the direction and the open_time of its key's live  *)
(* state as they are, and a flip flushes the old state with its direction  *)
(* and creates a new state of the other direction.                         *)
DirectionAgrees(d) ==
    \A j \in DOMAIN d :
        /\ d[j].st.direction \in {"LONG", "SHORT"}
        /\ d[j].st.direction = "LONG" <=> d[j].st.net_qty > 0
        /\ d[j].st.direction = "SHORT" <=> d[j].st.net_qty < 0

C19_DirectionFollowsSign ==
    [][Looping =>
        LET key == RowKey(rows[i])
            live == HasKey(state, key)
            n == Len(positions)
        IN  /\ DirectionAgrees(state')
            /\ (live /\ ~FlipFill /\ HasKey(state', key)) =>
                   /\ Get(state', key).direction = Get(state, key).direction
                   /\ Get(state', key).open_time = Get(state, key).open_time
            /\ (live /\ ~FlipFill /\ ~HasKey(state', key)) =>
                   /\ Len(positions') = n + 1
                   /\ positions'[n + 1].direction = Get(state, key).direction
            /\ FlipFill =>
                   /\ positions'[n + 1].direction = Get(state, key).direction
                   /\ IF HasKey(state', key)
                      THEN Get(state', key).direction # Get(state, key).direction
                      ELSE positions'[n + 2].direction # Get(state, key).direction
            /\ \A j \in DOMAIN state :
                   state[j].key # key =>
                       HasKey(state', state[j].key)
                       /\ Get(state', state[j].key) = state[j].st
    ]_vars

\* a short position was reduced, then flipped into a long one that lives
C19_Witness ==
    /\ pc = "loop" /\ i = 4
    /\ Len(positions) = 1 /\ positions[1].direction = "SHORT"
    /\ positions[1].fills = 3 /\ positions[1].max_position_qty = 4
    /\ Len(state) = 1 /\ state[1].st.direction = "LONG"
    /\ state[1].st.net_qty > 0

---------------------------------------------------------------------------
(* C20 - Commission and realized P&L are conserved: while the fills are    *)
(* folded, the commissions of the flushed records and of the live states   *)
(* add up to the commissions of the fills processed so far, and the        *)
(* commissions of the records returned to those of all input fills; the    *)
(* same holds of realizedPnl.  Every fill adds its amounts to one state.   *)
RECURSIVE SumOf(_, _)
SumOf(s, column) ==
    IF s = <<>> THEN 0 ELSE Head(s)[column] + SumOf(Tail(s), column)

LiveStates == [j \in DOMAIN state |-> state[j].st]

Conserved(column) ==
    /\ pc = "loop" =>
           SumOf(positions, column) + SumOf(LiveStates, column)
               = SumOf(SubSeq(rows, 1, i - 1), column)
    /\ pc \in {"combine", "done", "error"} =>
           SumOf(positions, column) + SumOf(open_positions, column)
               = SumOf(df, column)
    /\ pc = "done" => SumOf(result, column) = SumOf(df, column)

C20_FeesAndPnlConserved ==
    Conserved("commission") /\ Conserved("realizedPnl")

\* three fills with commissions and P&L, one of them a flip that leaves its
\* amounts on the closed record, one on the other key
C20_Witness ==
    /\ pc = "done" /\ Len(df) = 3 /\ Len(result) = 3
    /\ SumOf(df, "commission") = 2
    /\ SumOf(df, "realizedPnl") = 6
    /\ \E j, k \in DOMAIN result :
           /\ IsClosedRow(result[j]) /\ IsOpenRow(result[k])
           /\ result[j].positionSide = result[k].positionSide
           /\ result[j].fills = 2 /\ result[j].commission = 1
           /\ result[k].fills = 1 /\ result[k].commission = 0
           /\ result[k].open_time = 2

---------------------------------------------------------------------------
(* C21 - For every record, max_position_qty is the largest net exposure    *)
(* the position held in its own direction, and so it never exceeds         *)
(* entry_qty, the quantity opened in that direction; this includes the     *)
(* record closed by a flip.                                                *)
AllRecords ==
    {positions[j] : j \in DOMAIN positions}
    \cup {open_positions[j] : j \in DOMAIN open_positions}
    \cup {result[j] : j \in DOMAIN result}

C21_MaxQtyWithinEntryQty ==
    \A r \in AllRecords : r.max_position_qty <= r.entry_qty

\* the same of every record but the one a flip closes: that record alone
\* can carry the size of the leftover
C21_WithinEntryQtyButForFlips ==
    [][Looping /\ ~FlipFill =>
        /\ \A j \in DOMAIN state' :
               state'[j].st.max_abs_qty <= Abs(state'[j].st.qty_opened)
        /\ \A j \in (DOMAIN positions') \ (DOMAIN positions) :
               positions'[j].max_position_qty <= positions'[j].entry_qty
    ]_vars

---------------------------------------------------------------------------
(* C22 - The records of a key form a chain in time: every closed record    *)
(* has a close_time, not before its open_time; every later record of the   *)
(* key opens at or after the close_time of the record before it; an OPEN   *)
(* record, if there is one, is the last record of its key.                 *)
RecordsOf(frame, key) ==
    SelectSeq(frame, LAMBDA r : <<r.symbol, r.positionSide>> = key)

ClosesInTime(r) == notna(r.close_time) /\ r.open_time <= r.close_time[1]

Follows(a, b) == notna(a.close_time) /\ a.close_time[1] <= b.open_time

C22_RecordsChainInTime ==
    pc = "done" =>
        \A key \in Keys :
            LET mine == RecordsOf(result, key)
            IN  /\ \A j \in DOMAIN mine :
                       /\ IsClosedRow(mine[j]) => ClosesInTime(mine[j])
                       /\ IsOpenRow(mine[j]) => j = Len(mine)
                /\ \A j \in 1..(Len(mine) - 1) : Follows(mine[j], mine[j + 1])

\* the record flushed from the leftover of a flip, which has no close_time
FlipResidue(r) == IsClosedRow(r) /\ ~notna(r.close_time)

\* the chain of every key but for the flip residues: such a record opens
\* when the record before it closed, and the record after it opens no
\* earlier than it
C22_ChainButForFlipResidues ==
    pc = "done" =>
        \A key \in Keys :
            LET mine == RecordsOf(result, key)
            IN  /\ \A j \in DOMAIN mine :
                       /\ (IsClosedRow(mine[j]) /\ ~FlipResidue(mine[j]))
                              => ClosesInTime(mine[j])
                       /\ IsOpenRow(mine[j]) => j = Len(mine)
                       /\ FlipResidue(mine[j]) =>
                              j > 1 /\ mine[j - 1].close_time = Some(mine[j].open_time)
                /\ \A j \in 1..(Len(mine) - 1) :
                       IF FlipResidue(mine[j])
                       THEN mine[j].open_time <= mine[j + 1].open_time
                       ELSE Follows(mine[j], mine[j + 1])

---------------------------------------------------------------------------
(* C23 - Whenever main() has ended, by returning or by a step that raised, *)
(* the watermark in the state file covers no fetched trade that is absent  *)
(* from the fills file: the last id stored for a symbol is at or past the  *)
(* id of a fetched trade only if the fills file holds that trade.          *)
Stored(t) ==
    \E j \in DOMAIN FileRows(fills_csv) :
        /\ FileRows(fills_csv)[j].symbol = t.symbol
        /\ FileRows(fills_csv)[j].id = t.id

Covered(t) == t.id <= LastId(state_file, t.symbol)

C23_WatermarkWithinStore ==
    fetch_pc = "idle" => \A t \in fetched : Covered(t) => Stored(t)

---------------------------------------------------------------------------
(* C24 - After write_fills_csv has returned, the fills file holds exactly  *)
(* one row for each distinct (symbol, id) of the file before the call and  *)
(* of the new batch: only re-fetched copies of a fill are removed, never a *)
(* fill of one symbol because a fill of another symbol has its id.  The    *)
(* call is the one main() makes with the trades it fetched.                *)
PairsOf(frame) == {<<frame[j].symbol, frame[j].id>> : j \in DOMAIN frame}

OnePerPair(frame) == Cardinality(PairsOf(frame)) = Len(frame)

C24_OneRowPerSymbolAndId ==
    [][(/\ fetch_pc = "saved"
        /\ fetch_pc' = "idle"
        /\ all_trades # <<>>
        /\ ~fills_ret'[1].raised)
       =>
           /\ OnePerPair(FileRows(fills_csv'))
           /\ PairsOf(FileRows(fills_csv'))
                  = PairsOf(FileRows(fills_csv)) \cup PairsOf(all_trades)
    ]_vars

====
